---- MODULE Spec2Model ----
(***************************************************************************)
(* The usage ledger of the LLM cost monitor (scripts/store.py): the        *)
(* usage_records table, UsageStore.add_usage (an INSERT ... ON CONFLICT DO *)
(* UPDATE run in its own connection and transaction) and the four range    *)
(* queries; and the scripts around it: ingestion, budget alert and         *)
(* notification.                                                           *)
(*                                                                         *)
(* Text values.  A date is the day part of the fixed-width "%Y-%m-%d"      *)
(* string, kept as its two decimal digits and compared digit by digit as   *)
(* SQLite compares TEXT; the year-month prefix is common to every date of  *)
(* the model and decides no comparison.  An API key and its fingerprint    *)
(* are tuples of one-character strings.  Provider and model names are      *)
(* strings; where the index orders them the order is Collation.            *)
(*                                                                         *)
(* Numbers.  Token counters are integers.  cost is a REAL column and a     *)
(* Python float: a binary floating-point number, every sum rounded to the  *)
(* nearest representable value, ties to even.  The model keeps the         *)
(* rounding and shortens the significand to MantissaBits bits; a cost is   *)
(* an integer number of the smallest unit.  A cost can also be absent      *)
(* (Python's None, SQL's NULL): a value that may be absent is <<v>> when   *)
(* it is v and <<>> when it is absent.                                     *)
(*                                                                         *)
(* Specifications.  Spec: add_usage calls one after the other.  QuerySpec: *)
(* the same over every model name, for the ledgers the queries are put to; *)
(* the queries are SELECTs, change nothing, and are operators over the     *)
(* table, so a claim about one is checked at every ledger reached and for  *)
(* every argument.  ConcSpec: add_usage on several connections at once,    *)
(* step by step, with SQLite's write lock and rollback.  InterfaceSpec:     *)
(* the store under any use its interface admits (values of any sign, a     *)
(* None cost, the store constructed again, queries on a failing database). *)
(* ReadSpec: the connections of ConcSpec and one query that falls among     *)
(* their steps.                                                             *)
(* FetchSpec: the ingestion script (scripts/fetch_usage.py) run again and  *)
(* again over what the providers answer.  AlertSpec: the ledger filled,    *)
(* then one run of the budget check (scripts/alert.py) or of the           *)
(* notification fan-out (scripts/notify.py).                               *)
(***************************************************************************)
EXTENDS Integers, Sequences, FiniteSets, TLC

\* ---------------------------------------------------------------- bounds
MaxCalls == 3
MaxQueryCalls == 2
FirstDay == 9
LastDay == 10
MantissaBits == 3
NumProcs == 2
MaxFetchCalls == 2
MaxAlertCalls == 2
MaxChannels == 2

\* ------------------------------------------------------- program constants
HashLen == 16
MonthStart == 1
DefaultThreshold == 80

Providers == {"anthropic", "openai"}
Models == {"claude-3-opus", "gpt-4"}
ApiKeys == {<<"k", "1">>, <<"k", "2">>}
HexDigits ==
  {"0", "1", "2", "3", "4", "5", "6", "7", "8", "9", "a", "b", "c", "d", "e", "f"}

\* The binary order of the provider and model names of the model.
Collation == <<"anthropic", "claude-3-opus", "gpt-4", "openai", "unknown">>

TextRank(s) == CHOOSE i \in 1..Len(Collation) : Collation[i] = s

TextLess(a, b) == TextRank(a) < TextRank(b)

\* ------------------------------------------------------------------ dates
\* strftime("%Y-%m-%d"): zero padded, fixed width.
FormatDate(d) == <<d \div 10, d % 10>>

\* The days of the model.
DayNumbers == FirstDay..LastDay

Dates == {FormatDate(d) : d \in DayNumbers}

\* TEXT comparison of two strings of equal length: the first differing
\* character decides.
RECURSIVE StrLess(_, _)
StrLess(a, b) ==
  IF a = <<>> \/ b = <<>> THEN a = <<>> /\ b # <<>>
  ELSE IF Head(a) # Head(b) THEN Head(a) < Head(b)
  ELSE StrLess(Tail(a), Tail(b))

StrLeq(a, b) == a = b \/ StrLess(a, b)

\* ----------------------------------------------------------------- floats
RECURSIVE BitLen(_)
BitLen(n) == IF n = 0 THEN 0 ELSE 1 + BitLen(n \div 2)

RECURSIVE Pow2(_)
Pow2(e) == IF e = 0 THEN 1 ELSE 2 * Pow2(e - 1)

Abs(n) == IF n < 0 THEN -n ELSE n

\* Round to nearest, ties to even, to MantissaBits significant bits.
RoundFloat(n) ==
  LET m == Abs(n)
      e == IF BitLen(m) > MantissaBits THEN BitLen(m) - MantissaBits ELSE 0
      s == Pow2(e)
      q == m \div s
      r == m % s
      up == 2 * r > s \/ (2 * r = s /\ q % 2 = 1)
      v == (IF up THEN q + 1 ELSE q) * s
  IN IF n < 0 THEN -v ELSE v

\* Python's and SQLite's + on two floats.
FAdd(a, b) == RoundFloat(a + b)

\* None, bound by sqlite3 as NULL.
Null == <<>>

\* SQL's + : NULL when either operand is NULL.
SqlAdd(x, y) == IF x = Null \/ y = Null THEN Null ELSE <<FAdd(x[1], y[1])>>

\* ------------------------------------------------------------ fingerprint
\* hashlib.sha256(api_key.encode()).hexdigest(), for the keys of the model:
\* the first 20 of the digest's 64 hexadecimal characters.
Sha256Hex(k) ==
  IF k = <<"k", "1">> THEN
    <<"6", "a", "b", "9", "f", "1", "e", "b", "8", "f", "7", "d", "3", "3", "8", "8",
      "f", "4", "f", "9">>
  ELSE
    <<"0", "1", "5", "f", "7", "e", "6", "b", "c", "5", "a", "e", "a", "f", "4", "8",
      "3", "7", "2", "4">>

\* Faulty variant: the key itself is stored.
RawKeyStored(api_key) == api_key

\* _hash_key: hexdigest()[:16]
HashKey(api_key) == SubSeq(Sha256Hex(api_key), 1, HashLen)

\* ------------------------------------------------------------------ table
VARIABLES
  table,   \* usage_records as committed: its rows in rowid order
  acked,   \* the add_usage calls that have returned, in the order they did
  pc,      \* per connection: where its add_usage call stands
  args,    \* per connection: the bound parameters of its call
  txn,     \* per connection: the table as its open transaction has written it
  lock,    \* the connection holding the database's write lock, or NoConn
  run      \* the last run of a script's entry point: its input and its outcome

vars == <<table, acked, pc, args, txn, lock, run>>

UsageLines ==
  { [input_tokens |-> 1, output_tokens |-> 0, cache_read_tokens |-> 0,
     cache_creation_tokens |-> 0, cost |-> <<1>>],
    [input_tokens |-> 1000, output_tokens |-> 500, cache_read_tokens |-> 20,
     cache_creation_tokens |-> 10, cost |-> <<8>>] }

\* The arguments of one add_usage call.
CallOf(d, p, k, m, u) ==
  [date |-> d, provider |-> p, api_key |-> k, model |-> m,
   input_tokens |-> u.input_tokens, output_tokens |-> u.output_tokens,
   cache_read_tokens |-> u.cache_read_tokens,
   cache_creation_tokens |-> u.cache_creation_tokens, cost |-> u.cost]

Calls ==
  {CallOf(d, p, k, m, u) : d \in Dates, p \in Providers, k \in ApiKeys,
                           m \in Models, u \in UsageLines}

\* The columns of the UNIQUE constraint.
Identity(r) == <<r.date, r.provider, r.api_key_hash, r.model>>

\* The parameter tuple of the INSERT: the key replaced by its fingerprint.
BindParams(a) ==
  [date |-> a.date, provider |-> a.provider, api_key_hash |-> HashKey(a.api_key),
   model |-> a.model, input_tokens |-> a.input_tokens,
   output_tokens |-> a.output_tokens, cache_read_tokens |-> a.cache_read_tokens,
   cache_creation_tokens |-> a.cache_creation_tokens, cost |-> a.cost]

\* Faulty variant: the conflict target leaves out the credential fingerprint.
ConflictsAnyKey(tbl, r) ==
  {i \in 1..Len(tbl) : <<tbl[i].date, tbl[i].provider, tbl[i].model>>
                         = <<r.date, r.provider, r.model>>}

\* ON CONFLICT(date, provider, api_key_hash, model): the rows of r's identity.
Conflicts(tbl, r) == {i \in 1..Len(tbl) : Identity(tbl[i]) = Identity(r)}

\* DO UPDATE SET: every accumulator is the row's value plus the excluded one.
AddInto(old, r) ==
  [old EXCEPT !.input_tokens = old.input_tokens + r.input_tokens,
              !.output_tokens = old.output_tokens + r.output_tokens,
              !.cache_read_tokens = old.cache_read_tokens + r.cache_read_tokens,
              !.cache_creation_tokens =
                 old.cache_creation_tokens + r.cache_creation_tokens,
              !.cost = SqlAdd(old.cost, r.cost)]

\* Faulty variant: INSERT OR REPLACE, the new values overwrite the row.
UpsertReplace(tbl, r) ==
  IF Conflicts(tbl, r) = {} THEN Append(tbl, r)
  ELSE LET i == CHOOSE j \in Conflicts(tbl, r) : TRUE IN [tbl EXCEPT ![i] = r]

\* Faulty variant: a plain INSERT into a table without the UNIQUE constraint.
UpsertInsertOnly(tbl, r) == Append(tbl, r)

\* INSERT ... ON CONFLICT(date, provider, api_key_hash, model) DO UPDATE.
Upsert(tbl, r) ==
  IF Conflicts(tbl, r) = {} THEN Append(tbl, r)
  ELSE LET i == CHOOSE j \in Conflicts(tbl, r) : TRUE
       IN [tbl EXCEPT ![i] = AddInto(tbl[i], r)]

\* ---------------------------------------------------------------- queries
\* "No provider": None, or the empty string, which `if provider:` treats alike.
NoProvider == ""

ProviderArgs == Providers \cup {NoProvider}

\* Faulty variant: date < ? for the end of the range.
InRangeHalfOpen(r, start, end) == StrLeq(start, r.date) /\ StrLess(r.date, end)

\* WHERE date >= ? AND date <= ?
InRange(r, start, end) == StrLeq(start, r.date) /\ StrLeq(r.date, end)

\* The order of idx_usage_date_provider: date, provider, rowid.
IndexBefore(tbl, i, j) ==
  \/ StrLess(tbl[i].date, tbl[j].date)
  \/ tbl[i].date = tbl[j].date /\ TextLess(tbl[i].provider, tbl[j].provider)
  \/ tbl[i].date = tbl[j].date /\ tbl[i].provider = tbl[j].provider /\ i < j

RECURSIVE InIndexOrder(_, _)
InIndexOrder(tbl, S) ==
  IF S = {} THEN <<>>
  ELSE LET m == CHOOSE i \in S : \A j \in S \ {i} : IndexBefore(tbl, i, j)
       IN <<tbl[m]>> \o InIndexOrder(tbl, S \ {m})

\* SEARCH usage_records USING INDEX idx_usage_date_provider (date>? AND date<?)
IndexScan(tbl, start, end) ==
  InIndexOrder(tbl, {i \in 1..Len(tbl) : InRange(tbl[i], start, end)})

\* Faulty variant: the provider argument is not applied.
FilterIgnored(rows, provider) == rows

\* if provider: query += " AND provider = ?"
ProviderFilter(rows, provider) ==
  IF provider # NoProvider
  THEN SelectSeq(rows, LAMBDA r : r.provider = provider)
  ELSE rows

\* The rows a query's WHERE clause selects, in the order the scan meets them.
Selected(tbl, start, end, provider) ==
  ProviderFilter(IndexScan(tbl, start, end), provider)

\* SUM over an INTEGER column.
RECURSIVE SumInt(_, _)
SumInt(rows, col) ==
  IF rows = <<>> THEN 0 ELSE Head(rows)[col] + SumInt(Tail(rows), col)

\* SUM(cost): a double accumulator that starts at 0.0 and adds row by row.
RECURSIVE SumCostFrom(_, _)
SumCostFrom(acc, rows) ==
  IF rows = <<>> THEN acc
  ELSE SumCostFrom(FAdd(acc, Head(rows).cost[1]), Tail(rows))

SumCost(rows) == SumCostFrom(0, rows)

\* The rows SUM(cost) adds: an aggregate passes over the NULLs.
NonNullCost(rows) == SelectSeq(rows, LAMBDA r : r.cost # Null)

\* SUM(cost) as SQL gives it: NULL when there is no row with a cost.
SqlSumCost(rows) ==
  IF NonNullCost(rows) = <<>> THEN Null ELSE <<SumCost(NonNullCost(rows))>>

\* Faulty variant: return result, without the "or 0.0".
TotalCostNoDefault(tbl, start, end, provider) ==
  SqlSumCost(Selected(tbl, start, end, provider))

\* get_total_cost: SELECT SUM(cost) ...; return result or 0.0.  The value is
\* returned as <<v>>, so that a None that escaped would show as <<>>.
GetTotalCost(tbl, start, end, provider) ==
  LET result == SqlSumCost(Selected(tbl, start, end, provider))
  IN IF result = <<>> \/ result = <<0>> THEN <<0>> ELSE result

\* The SUM(cost) of each group of `rows`, the groups keyed by column `col`.
GroupCost(rows, col) ==
  [g \in {rows[i][col] : i \in 1..Len(rows)} |->
     SqlSumCost(SelectSeq(rows, LAMBDA r : r[col] = g))]

\* get_cost_by_model: SELECT model, SUM(cost) ... GROUP BY model, as the dict
\* the method builds from the rows (the ORDER BY only orders the dict).
GetCostByModel(tbl, start, end, provider) ==
  GroupCost(Selected(tbl, start, end, provider), "model")

\* get_cost_by_provider: SELECT provider, SUM(cost) ... GROUP BY provider.
GetCostByProvider(tbl, start, end) ==
  GroupCost(IndexScan(tbl, start, end), "provider")

\* GROUP BY date, provider, model
UsageGroup(r) == <<r.date, r.provider, r.model>>

GroupEntry(grp) ==
  [date |-> grp[1].date, provider |-> grp[1].provider, model |-> grp[1].model,
   input_tokens |-> SumInt(grp, "input_tokens"),
   output_tokens |-> SumInt(grp, "output_tokens"),
   cache_read_tokens |-> SumInt(grp, "cache_read_tokens"),
   cache_creation_tokens |-> SumInt(grp, "cache_creation_tokens"),
   cost |-> SqlSumCost(grp)]

\* ORDER BY date DESC; groups of one date stay in the order of the grouping.
GroupBefore(g, h) ==
  \/ StrLess(h[1], g[1])
  \/ g[1] = h[1] /\ TextLess(g[2], h[2])
  \/ g[1] = h[1] /\ g[2] = h[2] /\ TextLess(g[3], h[3])

RECURSIVE OrderGroups(_)
OrderGroups(S) ==
  IF S = {} THEN <<>>
  ELSE LET g == CHOOSE x \in S : \A y \in S \ {x} : GroupBefore(x, y)
       IN <<g>> \o OrderGroups(S \ {g})

\* get_usage: the list of dicts, one per group.
GetUsage(tbl, start, end, provider) ==
  LET rows == Selected(tbl, start, end, provider)
      groups == OrderGroups({UsageGroup(rows[i]) : i \in 1..Len(rows)})
  IN [n \in 1..Len(groups) |->
        GroupEntry(SelectSeq(rows, LAMBDA r : UsageGroup(r) = groups[n]))]

\* ------------------------------------------------- one caller at a time
NoConn == 0

Procs == 1..NumProcs

\* No script has run.
NoRun == [op |-> "none"]

Init ==
  /\ table = <<>>
  /\ acked = <<>>
  /\ pc = [p \in Procs |-> "idle"]
  /\ args = [p \in Procs |-> <<>>]
  /\ txn = [p \in Procs |-> <<>>]
  /\ lock = NoConn
  /\ run = NoRun

\* add_usage, run from connect to close with no other connection open.
AddUsage(a) ==
  /\ table' = Upsert(table, BindParams(a))
  /\ acked' = Append(acked, a)
  /\ UNCHANGED <<pc, args, txn, lock, run>>

\* The calls of the ledger specification: every day, provider, credential and
\* usage line, for one model.
LedgerCalls == {a \in Calls : a.model = "claude-3-opus"}

\* Up to MaxCalls calls, one after the other.
Next == \E a \in LedgerCalls : Len(acked) < MaxCalls /\ AddUsage(a)

Spec == Init /\ [][Next]_vars

\* The ledgers the queries are put to: up to MaxQueryCalls calls, over every
\* day, provider, credential, model and usage line.
QueryNext == \E a \in Calls : Len(acked) < MaxQueryCalls /\ AddUsage(a)

QuerySpec == Init /\ [][QueryNext]_vars

\* ------------------------------------------------- concurrent connections
\* Each process runs add_usage on a connection of its own.  SQLite gives one
\* connection at a time the database's write lock: the INSERT takes it (the
\* sqlite3 module opens the transaction before the statement), the statement
\* writes into the connection's own transaction, and commit() makes the
\* transaction the database's content and frees the lock.  A statement or a
\* commit that the database refuses (locked past the busy timeout, disk full,
\* I/O error) raises out of add_usage; the connection is dropped with its
\* transaction open and SQLite rolls the transaction back.

\* The calls the concurrent processes make: two credentials, one day,
\* provider and model.
ConcCalls ==
  {CallOf(FormatDate(FirstDay), "anthropic", k, "claude-3-opus", u) :
     k \in ApiKeys, u \in UsageLines}

\* The positions of a call: no call yet ("idle"), connected, its INSERT
\* executed, and, after a call that raised, where it raised.
AtRest == {"idle", "execute_raised", "commit_raised"}

InFlight == {p \in Procs : pc[p] \notin AtRest}

\* key_hash = self._hash_key(api_key); conn = sqlite3.connect(self.db_path)
Connect(p, a) ==
  /\ pc[p] \in AtRest
  /\ Len(acked) + Cardinality(InFlight) < MaxCalls
  /\ pc' = [pc EXCEPT ![p] = "connected"]
  /\ args' = [args EXCEPT ![p] = a]
  /\ UNCHANGED <<table, acked, txn, lock, run>>

\* Faulty variant: a store that lets two connections write at once.
NoWriteLock(p) == TRUE

\* The INSERT can take the write lock: no other connection holds it.
WriteLockFree(p) == lock = NoConn

\* cursor.execute(INSERT ... ON CONFLICT ... DO UPDATE ...)
Execute(p) ==
  /\ pc[p] = "connected"
  /\ WriteLockFree(p)
  /\ lock' = p
  /\ txn' = [txn EXCEPT ![p] = Upsert(table, BindParams(args[p]))]
  /\ pc' = [pc EXCEPT ![p] = "executed"]
  /\ UNCHANGED <<table, acked, args, run>>

\* conn.commit(); conn.close(); the call returns.
Commit(p) ==
  /\ pc[p] = "executed"
  /\ table' = txn[p]
  /\ acked' = Append(acked, args[p])
  /\ lock' = IF lock = p THEN NoConn ELSE lock
  /\ pc' = [pc EXCEPT ![p] = "idle"]
  /\ args' = [args EXCEPT ![p] = <<>>]
  /\ txn' = [txn EXCEPT ![p] = <<>>]
  /\ UNCHANGED run

\* Faulty variant: what the INSERT wrote stays when the call raises.
KeepUncommitted(p) == IF pc[p] = "executed" THEN txn[p] ELSE table

\* The database after a connection is dropped with its transaction open.
RolledBack(p) == table

\* Faulty variant: add_usage catches the sqlite3.Error and returns.
ErrorSwallowed(p) == "idle"

\* Where a call stands once execute() or commit() has raised: add_usage has
\* no try, the exception leaves the call.
AfterError(p) == IF pc[p] = "executed" THEN "commit_raised" ELSE "execute_raised"

\* execute() or commit() raises sqlite3.Error: add_usage ends by the
\* exception, and the caller still knows the arguments it called with.
Raise(p) ==
  /\ pc[p] \in {"connected", "executed"}
  /\ table' = RolledBack(p)
  /\ lock' = IF lock = p THEN NoConn ELSE lock
  /\ pc' = [pc EXCEPT ![p] = AfterError(p)]
  /\ txn' = [txn EXCEPT ![p] = <<>>]
  /\ UNCHANGED <<acked, args, run>>

\* Faulty variant: a reader sees the rows as the open transaction has written
\* them so far, the token counters added and the cost not yet.
SnapshotHalfWritten ==
  IF lock = NoConn \/ txn[lock] = <<>> THEN table
  ELSE [i \in 1..Len(txn[lock]) |->
          IF i <= Len(table) THEN [txn[lock][i] EXCEPT !.cost = table[i].cost]
          ELSE [txn[lock][i] EXCEPT !.cost = <<0>>]]

\* What a SELECT of a query method reads, on its own connection, while
\* add_usage calls are open on theirs: the database as committed.  The INSERT
\* of an open transaction is in its connection's cache; commit() writes it to
\* the file under the exclusive lock, which no reader shares.
Snapshot == table

ConcNext ==
  \E p \in Procs :
    \/ \E a \in ConcCalls : Connect(p, a)
    \/ Execute(p)
    \/ Commit(p)
    \/ Raise(p)

ConcSpec == Init /\ [][ConcNext]_vars

\* ------------------------------------------------- the interface, any use
\* The store as any caller may use it: add_usage with whatever values it
\* takes (no argument is validated: a negative count, a negative cost and a
\* None cost are bound like any other), UsageStore constructed again on the
\* same path, and the queries, which may meet a database that fails.

OddLines ==
  { [input_tokens |-> -5, output_tokens |-> 0, cache_read_tokens |-> 0,
     cache_creation_tokens |-> 0, cost |-> <<-1>>],
    [input_tokens |-> 1, output_tokens |-> 0, cache_read_tokens |-> 0,
     cache_creation_tokens |-> 0, cost |-> Null] }

InterfaceCalls ==
  {CallOf(FormatDate(FirstDay), "anthropic", k, "claude-3-opus", u) :
     k \in ApiKeys, u \in UsageLines \cup OddLines}

\* Faulty variant: the schema is dropped and created anew.
InitDbRecreate(tbl) == <<>>

\* _init_db: CREATE TABLE IF NOT EXISTS, CREATE INDEX IF NOT EXISTS.
InitDb(tbl) == tbl

\* UsageStore(storage_path), on the path of the existing database.
Reopen ==
  /\ table' = InitDb(table)
  /\ run' = [op |-> "UsageStore"]
  /\ UNCHANGED <<acked, pc, args, txn, lock>>

NoException == ""

\* A query method from connect to return.  None of the four has a check of
\* its arguments or a try: the call returns what the SELECT gave, or leaves
\* by the sqlite3.Error that connect, execute or fetch raised.
QueryCall(value, db_ok) ==
  IF db_ok THEN [exception |-> NoException, value |-> value]
  ELSE [exception |-> "sqlite3.Error"]

QueryMethods ==
  {"get_usage", "get_total_cost", "get_cost_by_model", "get_cost_by_provider"}

QueryResult(method, tbl, start, end, provider) ==
  CASE method = "get_usage" -> GetUsage(tbl, start, end, provider)
    [] method = "get_total_cost" -> GetTotalCost(tbl, start, end, provider)
    [] method = "get_cost_by_model" -> GetCostByModel(tbl, start, end, provider)
    [] method = "get_cost_by_provider" -> GetCostByProvider(tbl, start, end)

\* One call of a query method: a SELECT, nothing is written.
Query(method, start, end, provider, db_ok) ==
  /\ run' = [op |-> method, start_date |-> start, end_date |-> end,
             provider |-> provider, db_ok |-> db_ok,
             outcome |-> QueryCall(QueryResult(method, Snapshot, start, end, provider),
                                   db_ok)]
  /\ UNCHANGED <<table, acked, pc, args, txn, lock>>

InterfaceNext ==
  \/ \E a \in InterfaceCalls : Len(acked) < MaxCalls /\ AddUsage(a)
  \/ Reopen
  \/ \E method \in QueryMethods : \E db_ok \in BOOLEAN :
       Query(method, FormatDate(FirstDay), FormatDate(LastDay), NoProvider, db_ok)

InterfaceSpec == Init /\ [][InterfaceNext]_vars

\* ------------------------------------------------ a read among the writes
\* add_usage on several connections, as in ConcSpec, and one call of
\* get_usage or get_total_cost, on a connection of its own, that falls at any
\* moment of their run.

\* The calls of the writers: the large usage line, for either credential.
ReadCalls == {a \in ConcCalls : a.input_tokens = 1000}

ReadNext ==
  \/ \E p \in Procs :
       \/ \E a \in ReadCalls : Connect(p, a)
       \/ Execute(p)
       \/ Commit(p)
       \/ Raise(p)
  \/ /\ run = NoRun
     /\ \E method \in {"get_usage", "get_total_cost"} :
          Query(method, FormatDate(FirstDay), FormatDate(LastDay), NoProvider, TRUE)

ReadSpec == Init /\ [][ReadNext]_vars

\* ------------------------------------------------------ ingestion adapter
\* scripts/fetch_usage.py.  calc_cost.py, which it imports, is described by
\* the specification only: a pricing table and calculate_cost.

\* MODEL_PRICING: per-token rates by model name; a model may have no cache
\* rates.
ModelPricing ==
  [m \in Models |->
     IF m = "gpt-4" THEN [input |-> 2, output |-> 4]
     ELSE [input |-> 1, output |-> 5, cache_read |-> 1, cache_write |-> 2]]

\* A missing cache rate is 0.
RateOf(entry, kind) == IF kind \in DOMAIN entry THEN entry[kind] ELSE 0

FMul(a, b) == RoundFloat(a * b)

\* calculate_cost: the cost, or Null ("unknown") when no rate matches.  The
\* model names of the model carry no snapshot suffix, so that a name matches
\* by prefix only when it matches exactly.
CalculateCost(model, input, output, cache_read, cache_creation) ==
  IF model \notin DOMAIN ModelPricing THEN Null
  ELSE LET e == ModelPricing[model]
       IN <<FAdd(FAdd(FAdd(FMul(input, RateOf(e, "input")),
                           FMul(output, RateOf(e, "output"))),
                      FMul(cache_read, RateOf(e, "cache_read"))),
                 FMul(cache_creation, RateOf(e, "cache_write")))>>

\* providers.openai.keys, providers.anthropic.keys of the configuration.
OpenaiKeys == << <<"k", "1">> >>

AnthropicKeys == << <<"k", "2">> >>

\* What the OpenAI usage endpoint answers: the request fails, or "data" holds
\* items; an item may lack its snapshot_id.
OpenaiItems ==
  << [snapshot_id |-> <<"gpt-4">>, n_context_tokens_total |-> 1,
      n_generated_tokens_total |-> 0],
     [snapshot_id |-> <<>>, n_context_tokens_total |-> 1,
      n_generated_tokens_total |-> 1],
     [snapshot_id |-> <<"gpt-4">>, n_context_tokens_total |-> 0,
      n_generated_tokens_total |-> 0] >>

OpenaiResponses ==
  { [ok |-> FALSE, data |-> <<>>] }
    \cup { [ok |-> TRUE, data |-> <<OpenaiItems[i]>>] : i \in 1..3 }
    \cup { [ok |-> TRUE, data |-> <<OpenaiItems[1], OpenaiItems[2]>>] }

\* What the Anthropic usage endpoint answers.
AnthropicResponses ==
  { [ok |-> FALSE, usage |-> <<>>],
    [ok |-> TRUE,
     usage |-> << [model |-> <<"claude-3-opus">>, input_tokens |-> 1000,
                   output_tokens |-> 500, cache_read_tokens |-> 20,
                   cache_creation_tokens |-> 10] >>] }

\* dict.get(key, default)
GetOr(opt, default) == IF opt = <<>> THEN default ELSE opt[1]

\* One usage record of fetch_openai_usage.
OpenaiRecord(item) ==
  LET model == GetOr(item.snapshot_id, "unknown")
  IN [provider |-> "openai", model |-> model,
      input_tokens |-> item.n_context_tokens_total,
      output_tokens |-> item.n_generated_tokens_total,
      cache_read_tokens |-> 0, cache_creation_tokens |-> 0,
      cost |-> CalculateCost(model, item.n_context_tokens_total,
                             item.n_generated_tokens_total, 0, 0)]

\* for item in data.get("data", []): the records of the items with usage.
RECURSIVE OpenaiRecords(_)
OpenaiRecords(items) ==
  IF items = <<>> THEN <<>>
  ELSE LET item == Head(items)
       IN IF item.n_context_tokens_total = 0 /\ item.n_generated_tokens_total = 0
          THEN OpenaiRecords(Tail(items))
          ELSE <<OpenaiRecord(item)>> \o OpenaiRecords(Tail(items))

\* fetch_openai_usage: the items with usage, as records; [] when the request
\* raised.
FetchOpenaiUsage(resp) == IF ~resp.ok THEN <<>> ELSE OpenaiRecords(resp.data)

\* One usage record of fetch_anthropic_usage.
AnthropicRecord(usage) ==
  LET model == GetOr(usage.model, "unknown")
  IN [provider |-> "anthropic", model |-> model,
      input_tokens |-> usage.input_tokens, output_tokens |-> usage.output_tokens,
      cache_read_tokens |-> usage.cache_read_tokens,
      cache_creation_tokens |-> usage.cache_creation_tokens,
      cost |-> CalculateCost(model, usage.input_tokens, usage.output_tokens,
                             usage.cache_read_tokens, usage.cache_creation_tokens)]

\* for usage in day_data.get("usage", [])
RECURSIVE AnthropicRecords(_)
AnthropicRecords(usages) ==
  IF usages = <<>> THEN <<>>
  ELSE <<AnthropicRecord(Head(usages))>> \o AnthropicRecords(Tail(usages))

\* fetch_anthropic_usage: the usage lines as records; [] when the request
\* raised.
FetchAnthropicUsage(resp) ==
  IF ~resp.ok THEN <<>> ELSE AnthropicRecords(resp.usage)

\* The add_usage call fetch_usage makes for one record.
RecordCall(date, provider, api_key, record) ==
  [date |-> date, provider |-> provider, api_key |-> api_key,
   model |-> record.model, input_tokens |-> record.input_tokens,
   output_tokens |-> record.output_tokens,
   cache_read_tokens |-> record.cache_read_tokens,
   cache_creation_tokens |-> record.cache_creation_tokens,
   cost |-> record.cost]

\* The add_usage calls of one key's records, in their order.
RECURSIVE KeyCalls(_, _, _, _)
KeyCalls(date, provider, api_key, records) ==
  IF records = <<>> THEN <<>>
  ELSE <<RecordCall(date, provider, api_key, Head(records))>>
         \o KeyCalls(date, provider, api_key, Tail(records))

\* The add_usage calls of a provider's keys, key after key.
RECURSIVE ProviderCalls(_, _, _, _)
ProviderCalls(date, provider, keys, records) ==
  IF keys = <<>> THEN <<>>
  ELSE KeyCalls(date, provider, Head(keys), records)
         \o ProviderCalls(date, provider, Tail(keys), records)

\* All the add_usage calls of one fetch_usage: OpenAI's, then Anthropic's.
FetchCalls(date, openai, anthropic) ==
  ProviderCalls(date, "openai", OpenaiKeys, FetchOpenaiUsage(openai))
    \o ProviderCalls(date, "anthropic", AnthropicKeys,
                     FetchAnthropicUsage(anthropic))

\* The table after the add_usage calls `calls`, one after the other.
RECURSIVE AddAll(_, _)
AddAll(tbl, calls) ==
  IF calls = <<>> THEN tbl
  ELSE AddAll(Upsert(tbl, BindParams(Head(calls))), Tail(calls))

\* total_fetched: len(records), summed over the keys.
TotalFetched(openai, anthropic) ==
  Len(OpenaiKeys) * Len(FetchOpenaiUsage(openai))
    + Len(AnthropicKeys) * Len(FetchAnthropicUsage(anthropic))

\* Faulty variant: the records are stored whatever dry_run says.
DryRunIgnored(dry_run, calls) == calls

\* if not dry_run: for record in records: store.add_usage(...)
Submitted(dry_run, calls) == IF dry_run THEN <<>> ELSE calls

\* fetch_usage(date, config_path, dry_run), with what the two providers
\* answer for the date.
FetchUsage(date, dry_run, openai, anthropic) ==
  LET calls == Submitted(dry_run, FetchCalls(date, openai, anthropic))
  IN /\ table' = AddAll(table, calls)
     /\ acked' = acked \o calls
     /\ run' = [op |-> "fetch_usage", date |-> date, dry_run |-> dry_run,
                openai |-> openai, anthropic |-> anthropic,
                total_fetched |-> TotalFetched(openai, anthropic)]
     /\ UNCHANGED <<pc, args, txn, lock>>

\* main: fetch_usage for a date, again and again as the command is run.
FetchNext ==
  \E date \in Dates : \E dry_run \in BOOLEAN :
    \E openai \in OpenaiResponses : \E anthropic \in AnthropicResponses :
      /\ Len(acked) < MaxFetchCalls
      /\ FetchUsage(date, dry_run, openai, anthropic)

FetchSpec == Init /\ [][FetchNext]_vars

\* ---------------------------------------------------------- notifications
\* scripts/notify.py: send_notification over the channel registry.

\* CHANNELS
Registry == {"console", "feishu", "telegram", "discord", "slack", "webhook"}

\* The channel names of the model's lists; "pager" is in no registry.
ChannelNames == {"console", "feishu", "telegram", "pager"}

\* What a channel's delivery meets: it goes through, the channel lacks its
\* configuration (no token, no webhook URL), the HTTP request raises, or the
\* service answers with a refusal.
SendOutcomes == {"ok", "missing_config", "transport_error", "refused"}

\* Faulty variant: a send() without the try around its request.
SendUnguarded(name, outcome) ==
  [raised |-> name # "console" /\ outcome = "transport_error",
   ok |-> name = "console" \/ outcome = "ok"]

\* channel.send(message): ConsoleChannel prints and returns True; every other
\* channel returns False without its configuration, makes its request inside
\* try ... except Exception and returns False from the except, and otherwise
\* returns what the answer says.
ChannelSend(name, outcome) ==
  [raised |-> FALSE, ok |-> name = "console" \/ outcome = "ok"]

\* results[name] = value
Put(dict, key, value) ==
  [k \in DOMAIN dict \cup {key} |-> IF k = key THEN value ELSE dict[k]]

\* for name in channels, from the i-th name on.  An exception out of send()
\* would end the loop and the call.
RECURSIVE NotifyFrom(_, _, _, _)
NotifyFrom(i, channels, env, acc) ==
  IF i > Len(channels) THEN acc
  ELSE LET name == channels[i]
       IN IF name \notin Registry
          THEN NotifyFrom(i + 1, channels, env,
                          [acc EXCEPT !.results = Put(acc.results, name, FALSE)])
          ELSE LET sent == ChannelSend(name, env[i])
                   tried == Append(acc.attempts, name)
               IN IF sent.raised
                  THEN [acc EXCEPT !.attempts = tried, !.exception = "Exception"]
                  ELSE NotifyFrom(i + 1, channels, env,
                                  [acc EXCEPT !.attempts = tried,
                                              !.results =
                                                 Put(acc.results, name, sent.ok)])

\* channels = channels or ["console"]
ChannelsOrConsole(channels) == IF channels = <<>> THEN <<"console">> ELSE channels

\* send_notification(message, channels): the dict it returns, with the sends
\* it made on the way.
SendNotificationResult(channels, env) ==
  NotifyFrom(1, ChannelsOrConsole(channels), env,
             [results |-> <<>>, attempts |-> <<>>, exception |-> NoException])

ChannelLists ==
  UNION {[1..n -> ChannelNames] : n \in 0..MaxChannels}

SendNotification(channels, env) ==
  /\ run' = [op |-> "send_notification", channels |-> channels, env |-> env,
             outcome |-> SendNotificationResult(channels, env)]
  /\ UNCHANGED <<table, acked, pc, args, txn, lock>>

\* ----------------------------------------------------------- budget alert
\* scripts/alert.py: check_budget, as main calls it (the budget is positive).

\* The budgets of the model divide 100 cost units, so that the percentage
\* total_cost / budget * 100 is a whole number and no rounding enters it.
Budgets == {10, 20}

\* budget.alert_threshold * 100; 0.8 when the configuration has none.
Thresholds == {DefaultThreshold, 50}

Modes == {"exit", "warn"}

Periods == {"today", "week", "month"}

\* budget.notify_channels
NotifyChannelLists == {<<>>, <<"telegram">>, <<"feishu", "telegram">>}

AlertOutcomes == {"ok", "transport_error"}

\* send_feishu_alert, send_telegram_alert: the request and raise_for_status
\* inside try ... except Exception; the function prints and returns.
AlertSend(channel, outcome) == [raised |-> FALSE, delivered |-> outcome = "ok"]

\* if webhook: / if token and chat_id:
Configured(channel, cfg) ==
  IF channel = "feishu" THEN cfg.feishu_webhook ELSE cfg.telegram_token

\* for channel in notify_channels, from the i-th on: the alerts sent.
RECURSIVE AlertFrom(_, _, _, _)
AlertFrom(i, cfg, env, acc) ==
  IF i > Len(cfg.notify_channels) THEN acc
  ELSE LET channel == cfg.notify_channels[i]
       IN IF channel \in {"feishu", "telegram"} /\ Configured(channel, cfg)
          THEN LET sent == AlertSend(channel, env[channel])
                   alert == [channel |-> channel, delivered |-> sent.delivered]
               IN IF sent.raised
                  THEN [acc EXCEPT !.alerts = Append(acc.alerts, alert),
                                   !.exception = "Exception"]
                  ELSE AlertFrom(i + 1, cfg, env,
                                 [acc EXCEPT !.alerts = Append(acc.alerts, alert)])
          ELSE AlertFrom(i + 1, cfg, env, acc)

\* start_date, end_date: the first day of today's month, and today.
BudgetWindow(period, today) == <<FormatDate(MonthStart), FormatDate(today)>>

\* pct = (total_cost / budget * 100) if budget > 0 else 0
Pct(total_cost, budget) == IF budget > 0 THEN (total_cost * 100) \div budget ELSE 0

\* The exit code after the notifications.
ExitCode(mode, pct, threshold) ==
  IF mode = "exit" /\ pct >= 100 THEN 2
  ELSE IF mode = "warn" \/ (mode = "exit" /\ pct >= threshold /\ pct < 100) THEN 1
  ELSE 0

\* check_budget(budget, config, mode, period) run on the day `today`, to the
\* exit of the process.
CheckBudgetResult(tbl, budget, cfg, mode, period, today, env) ==
  LET window == BudgetWindow(period, today)
      total_cost == GetTotalCost(tbl, window[1], window[2], NoProvider)[1]
      pct == Pct(total_cost, budget)
      threshold == cfg.alert_threshold
      sent == AlertFrom(1, cfg, env, [alerts |-> <<>>, exception |-> NoException])
  IN [start_date |-> window[1], end_date |-> window[2],
      total_cost |-> total_cost, pct |-> pct,
      alerts |-> IF pct >= threshold THEN sent.alerts ELSE <<>>,
      exception |-> IF pct >= threshold THEN sent.exception ELSE NoException,
      exit_code |-> IF pct >= threshold THEN ExitCode(mode, pct, threshold) ELSE 0]

Configs ==
  [alert_threshold : Thresholds, notify_channels : NotifyChannelLists,
   feishu_webhook : BOOLEAN, telegram_token : {TRUE}]

CheckBudget(budget, cfg, mode, period, today, env) ==
  /\ run' = [op |-> "check_budget", budget |-> budget, config |-> cfg,
             mode |-> mode, period |-> period, today |-> today, env |-> env,
             outcome |-> CheckBudgetResult(table, budget, cfg, mode, period,
                                           today, env)]
  /\ UNCHANGED <<table, acked, pc, args, txn, lock>>

\* The usage the budget is checked against: one identity's larger line, on
\* any day.
AlertCalls ==
  {CallOf(d, "anthropic", <<"k", "1">>, "claude-3-opus", u) :
     d \in Dates, u \in {v \in UsageLines : v.input_tokens = 1000}}

\* The ledger is filled, then one of the two scripts runs once.
AlertNext ==
  \/ /\ run = NoRun /\ Len(acked) < MaxAlertCalls
     /\ \E a \in AlertCalls : AddUsage(a)
  \/ /\ run = NoRun
     /\ \E budget \in Budgets : \E cfg \in Configs : \E mode \in Modes :
          \E period \in Periods : \E today \in DayNumbers :
            \E env \in [{"feishu", "telegram"} -> AlertOutcomes] :
              CheckBudget(budget, cfg, mode, period, today, env)
  \/ /\ run = NoRun
     /\ \E channels \in ChannelLists :
          \E env \in [1..Len(ChannelsOrConsole(channels)) -> SendOutcomes] :
            SendNotification(channels, env)

AlertSpec == Init /\ [][AlertNext]_vars

\* ================================================================ claims
\* The identity a call addresses, as add_usage is given it (the raw key).
CallIdentity(a) == <<a.date, a.provider, a.api_key, a.model>>

\* The row key a call addresses.
RowKey(a) == <<a.date, a.provider, HashKey(a.api_key), a.model>>

RowsOf(tbl, a) == {i \in 1..Len(tbl) : Identity(tbl[i]) = RowKey(a)}

\* What one returned add_usage call a has made of the table t, giving u.
AddedTo(t, u, a) ==
  IF RowsOf(t, a) # {}
  THEN /\ Len(u) = Len(t)
       /\ \A i \in RowsOf(t, a) :
            /\ u[i].input_tokens = t[i].input_tokens + a.input_tokens
            /\ u[i].output_tokens = t[i].output_tokens + a.output_tokens
            /\ u[i].cache_read_tokens = t[i].cache_read_tokens + a.cache_read_tokens
            /\ u[i].cache_creation_tokens =
                 t[i].cache_creation_tokens + a.cache_creation_tokens
            /\ u[i].cost = <<FAdd(t[i].cost[1], a.cost[1])>>
  ELSE /\ Len(u) = Len(t) + 1
       /\ Identity(u[Len(u)]) = RowKey(a)
       /\ u[Len(u)].input_tokens = a.input_tokens
       /\ u[Len(u)].output_tokens = a.output_tokens
       /\ u[Len(u)].cache_read_tokens = a.cache_read_tokens
       /\ u[Len(u)].cache_creation_tokens = a.cache_creation_tokens
       /\ u[Len(u)].cost = a.cost

\* C1: add_usage is an additive upsert.  A call that returns has, when a row
\* of its (date, provider, hash(api_key), model) existed, made each of that
\* row's five accumulators the old value plus the supplied one (cost by
\* floating-point addition) and added no row; otherwise it has added one row
\* holding exactly the supplied values.
C1_AdditiveUpsert ==
  [][\A a \in LedgerCalls : acked' = Append(acked, a) => AddedTo(table, table', a)]_vars

\* C1 witness: the pattern of the spec's scenario, two ingestions of one
\* identity, the large usage line and then the small one, have left one row
\* with the summed counters.
C1_Witness ==
  /\ Len(acked) = 2
  /\ CallIdentity(acked[1]) = CallIdentity(acked[2])
  /\ acked[1].input_tokens = 1000 /\ acked[2].input_tokens = 1
  /\ Len(table) = 1
  /\ table[1].input_tokens = 1001 /\ table[1].output_tokens = 500
  /\ table[1].cache_read_tokens = 20 /\ table[1].cache_creation_tokens = 10
  /\ table[1].cost = <<FAdd(8, 1)>>

\* The calls of `hist` that address a's identity, in their order.
SameIdentity(hist, a) ==
  SelectSeq(hist, LAMBDA b : CallIdentity(b) = CallIdentity(a))

RECURSIVE DeltaSum(_, _)
DeltaSum(hist, col) ==
  IF hist = <<>> THEN 0 ELSE Head(hist)[col] + DeltaSum(Tail(hist), col)

\* The floating-point sum of the costs, added in the order of `hist`.
RECURSIVE DeltaCost(_)
DeltaCost(hist) ==
  IF Len(hist) = 1 THEN hist[1].cost[1]
  ELSE FAdd(DeltaCost(SubSeq(hist, 1, Len(hist) - 1)), hist[Len(hist)].cost[1])

\* C2: no lost update.  Whatever the interleaving of the connections, the
\* row of each identity holds, in every counter, the sum of the deltas of all
\* the calls for it that have returned (N calls adding 1 to input_tokens
\* leave N), its cost the floating-point sum of their costs in the order
\* they committed; an identity no returned call addressed has no row.
C2_NoLostUpdate ==
  \A a \in ConcCalls :
    LET mine == SameIdentity(acked, a)
        rows == RowsOf(table, a)
    IN IF mine = <<>> THEN rows = {}
       ELSE /\ rows # {}
            /\ \A i \in rows :
                 /\ table[i].input_tokens = DeltaSum(mine, "input_tokens")
                 /\ table[i].output_tokens = DeltaSum(mine, "output_tokens")
                 /\ table[i].cache_read_tokens = DeltaSum(mine, "cache_read_tokens")
                 /\ table[i].cache_creation_tokens =
                      DeltaSum(mine, "cache_creation_tokens")
                 /\ table[i].cost = <<DeltaCost(mine)>>

\* C2 witness: two calls for one identity, each adding 1 to input_tokens, are
\* in flight at once, one with its INSERT run and the write lock held, the
\* other connected and waiting, and the row already holds the 1 of a call
\* that has returned.
C2_Witness ==
  \E p, q \in Procs :
    /\ pc[p] = "executed" /\ pc[q] = "connected"
    /\ args[p].input_tokens = 1 /\ args[q].input_tokens = 1
    /\ CallIdentity(args[p]) = CallIdentity(args[q])
    /\ Len(acked) = 1 /\ CallIdentity(acked[1]) = CallIdentity(args[p])
    /\ acked[1].input_tokens = 1
    /\ Len(table) = 1 /\ table[1].input_tokens = 1
    /\ txn[p][1].input_tokens = 2

\* C3: at most one row per identity tuple (date, provider, credential
\* fingerprint, model), in every state of the committed table and of every
\* open transaction.
C3_OneRowPerIdentity ==
  /\ \A i, j \in 1..Len(table) : Identity(table[i]) = Identity(table[j]) => i = j
  /\ \A p \in Procs : \A i, j \in 1..Len(txn[p]) :
       Identity(txn[p][i]) = Identity(txn[p][j]) => i = j

\* C3 witness: an identity ingested twice beside another identity: two rows,
\* three returned calls.
C3_Witness ==
  /\ Len(acked) = 3
  /\ CallIdentity(acked[1]) = CallIdentity(acked[3])
  /\ CallIdentity(acked[1]) # CallIdentity(acked[2])
  /\ Len(table) = 2

\* One call carrying the deltas of a and b together: D1 + D2, the cost by
\* Python's float addition.
BothDeltas(a, b) ==
  [a EXCEPT !.input_tokens = a.input_tokens + b.input_tokens,
            !.output_tokens = a.output_tokens + b.output_tokens,
            !.cache_read_tokens = a.cache_read_tokens + b.cache_read_tokens,
            !.cache_creation_tokens =
               a.cache_creation_tokens + b.cache_creation_tokens,
            !.cost = <<FAdd(a.cost[1], b.cost[1])>>]

\* C4: from any ledger state, add_usage with D1 and then with D2 for one
\* identity leaves the same accumulators as one add_usage with D1 + D2.
\* (Violated: the cost column is a float, (c + D1) + D2 is rounded twice and
\* c + (D1 + D2) differently.)
C4_TwoCallsAsOne ==
  \A a, b \in LedgerCalls :
    CallIdentity(a) = CallIdentity(b) =>
      Upsert(Upsert(table, BindParams(a)), BindParams(b))
        = Upsert(table, BindParams(BothDeltas(a, b)))

\* The day after d.
NextDay(d) == d + 1

\* C5: for all days a <= b < c and either no provider or one,
\* get_total_cost(a, c) = get_total_cost(a, b) + get_total_cost(b + 1, c).
\* (Violated: the two sides add the same float costs in different groupings.)
C5_RangeSumSplits ==
  \A a, b, c \in DayNumbers : \A p \in ProviderArgs :
    (a <= b /\ b < c) =>
      GetTotalCost(table, FormatDate(a), FormatDate(c), p)[1]
        = FAdd(GetTotalCost(table, FormatDate(a), FormatDate(b), p)[1],
               GetTotalCost(table, FormatDate(NextDay(b)), FormatDate(c), p)[1])

\* The calendar day a date string names.
DayOf(date) == 10 * date[1] + date[2]

\* The rows of the table a query for [start, end] and provider p is about:
\* those of a day from start to end, both included, and of provider p when
\* one is given.
Matching(start, end, p) ==
  {i \in 1..Len(table) :
     /\ DayOf(start) <= DayOf(table[i].date)
     /\ DayOf(table[i].date) <= DayOf(end)
     /\ (p # NoProvider => table[i].provider = p)}

RECURSIVE ColumnSum(_, _)
ColumnSum(S, col) ==
  IF S = {} THEN 0
  ELSE LET i == CHOOSE j \in S : TRUE IN table[i][col] + ColumnSum(S \ {i}, col)

\* The floating-point sums of the costs of the rows S, one per order of adding.
RECURSIVE CostSums(_)
CostSums(S) ==
  IF S = {} THEN {0}
  ELSE UNION {{FAdd(v, table[i].cost[1]) : v \in CostSums(S \ {i})} : i \in S}

EntryGroup(e) == <<e.date, e.provider, e.model>>

\* C6: get_usage(start, end, provider?) returns exactly one entry per (date,
\* provider, model) that has a row with start <= date <= end (and of the
\* provider, when one is given) and no other entry; each entry's four token
\* counters are the sums over the rows of its group, whatever their
\* credential, and its cost is the floating-point sum of their costs.
C6_GetUsageGroups ==
  \A start, end \in Dates : \A p \in ProviderArgs :
    LET out == GetUsage(table, start, end, p)
        rows == Matching(start, end, p)
    IN /\ \A i \in rows :
            Cardinality({n \in 1..Len(out) : EntryGroup(out[n]) = UsageGroup(table[i])})
              = 1
       /\ \A n \in 1..Len(out) :
            LET grp == {i \in rows : UsageGroup(table[i]) = EntryGroup(out[n])}
            IN /\ grp # {}
               /\ out[n].input_tokens = ColumnSum(grp, "input_tokens")
               /\ out[n].output_tokens = ColumnSum(grp, "output_tokens")
               /\ out[n].cache_read_tokens = ColumnSum(grp, "cache_read_tokens")
               /\ out[n].cache_creation_tokens = ColumnSum(grp, "cache_creation_tokens")
               /\ out[n].cost \in {<<v>> : v \in CostSums(grp)}

\* C6 witness: two rows that differ only in the credential fingerprint, and
\* get_usage over their day answers with the one merged entry.
C6_Witness ==
  /\ Len(table) = 2
  /\ UsageGroup(table[1]) = UsageGroup(table[2])
  /\ table[1].api_key_hash # table[2].api_key_hash
  /\ table[1].input_tokens = 1000 /\ table[2].input_tokens = 1
  /\ LET out == GetUsage(table, table[1].date, table[1].date, table[1].provider)
     IN Len(out) = 1 /\ out[1].input_tokens = 1001 /\ out[1].output_tokens = 500

\* C7: get_total_cost over a range and provider that match no row returns 0,
\* a number and not None, also on the empty ledger.
C7_TotalOfNothingIsZero ==
  \A start, end \in Dates : \A p \in ProviderArgs :
    Matching(start, end, p) = {} => GetTotalCost(table, start, end, p) = <<0>>

\* C7 witness: a ledger with rows, none of them of the day and provider asked
\* for, and the call has returned 0.
C7_Witness ==
  /\ Len(table) = 2
  /\ \E d \in Dates : \E p \in Providers :
       /\ Matching(d, d, p) = {}
       /\ Matching(d, d, NoProvider) # {}
       /\ GetTotalCost(table, d, d, p) = <<0>>

\* C8: get_cost_by_model maps exactly the models with a row in the range (of
\* the provider, when one is given) to the floating-point sum of the cost of
\* those rows, and get_cost_by_provider exactly the providers with a row in
\* the range to the sum of theirs; a model or provider without such a row is
\* no key of the mapping.
C8_CostBreakdowns ==
  \A start, end \in Dates :
    /\ \A p \in ProviderArgs :
         LET by == GetCostByModel(table, start, end, p)
             rows == Matching(start, end, p)
         IN /\ DOMAIN by = {table[i].model : i \in rows}
            /\ \A m \in DOMAIN by :
                 by[m] \in {<<v>> : v \in CostSums({i \in rows : table[i].model = m})}
    /\ LET by == GetCostByProvider(table, start, end)
           rows == Matching(start, end, NoProvider)
       IN /\ DOMAIN by = {table[i].provider : i \in rows}
          /\ \A q \in DOMAIN by :
               by[q] \in {<<v>> : v \in CostSums({i \in rows : table[i].provider = q})}

\* C8 witness: two rows of different providers and models in the range: the
\* breakdown by provider has both providers, the breakdown by model for one
\* provider has that provider's model alone.
C8_Witness ==
  /\ Len(table) = 2
  /\ table[1].provider # table[2].provider
  /\ table[1].model # table[2].model
  /\ \E start, end \in Dates :
       /\ DOMAIN GetCostByProvider(table, start, end) = Providers
       /\ DOMAIN GetCostByModel(table, start, end, table[1].provider)
            = {table[1].model}
       /\ GetCostByModel(table, start, end, table[1].provider)[table[1].model]
            = table[1].cost

\* C9: all or nothing.  A step that is not the return of a successful call
\* leaves the committed table as it was: the INSERT of a call still open is
\* not in it, and a call that raises leaves every row exactly as it was; and
\* a step that changes the table is the return of one call, with all five
\* accumulators of its row moved by that call's deltas together.
C9_AllOrNothing ==
  [][/\ acked' = acked => table' = table
     /\ \A p \in Procs :
          (pc[p] \in {"connected", "executed"} /\ pc'[p] \in AtRest
             /\ pc'[p] # "idle") => table' = table
     /\ table' # table =>
          \E p \in Procs : /\ acked' = Append(acked, args[p])
                           /\ AddedTo(table, table', args[p])]_vars

\* C9 witness: a call for an identity that has a row raised at commit, after
\* its INSERT had run, and the row still holds what the one returned call
\* gave it.
C9_Witness ==
  \E p \in Procs :
    /\ pc[p] = "commit_raised"
    /\ args[p].input_tokens = 1000
    /\ Len(acked) = 1 /\ acked[1].input_tokens = 1
    /\ CallIdentity(acked[1]) = CallIdentity(args[p])
    /\ Len(table) = 1
    /\ table[1].input_tokens = 1 /\ table[1].output_tokens = 0
    /\ table[1].cache_read_tokens = 0 /\ table[1].cache_creation_tokens = 0
    /\ table[1].cost = <<1>>

\* C10: the raw credential is no part of the ledger.  No row has a column for
\* the key, the credential column of every row is HashLen hexadecimal
\* characters and is none of the keys add_usage was given, and calls with the
\* same (date, provider, key, model) address one row: there are as many rows
\* as distinct identities ingested.
C10_OnlyFingerprintStored ==
  /\ \A i \in 1..Len(table) :
       /\ "api_key" \notin DOMAIN table[i]
       /\ Len(table[i].api_key_hash) = HashLen
       /\ \A n \in 1..Len(table[i].api_key_hash) :
            table[i].api_key_hash[n] \in HexDigits
       /\ \A n \in 1..Len(acked) : table[i].api_key_hash # acked[n].api_key
  /\ Len(table) = Cardinality({CallIdentity(acked[n]) : n \in 1..Len(acked)})

\* C10 witness: three calls, two of them with one key for one identity and
\* the third with the other key: two rows, one per fingerprint.
C10_Witness ==
  /\ Len(acked) = 3
  /\ CallIdentity(acked[1]) = CallIdentity(acked[2])
  /\ acked[3].api_key # acked[1].api_key
  /\ acked[3].date = acked[1].date /\ acked[3].provider = acked[1].provider
  /\ Len(table) = 2
  /\ table[1].api_key_hash # table[2].api_key_hash
  /\ table[1].input_tokens = acked[1].input_tokens + acked[2].input_tokens

\* calculate_cost has no rate for the model.
UnknownPricing(model) == CalculateCost(model, 1, 1, 0, 0) = Null

\* C11: a usage line whose model calculate_cost reports as unknown is not
\* stored in the ledger as ordinary usage: no add_usage call is made with the
\* "unknown" cost, and no row of the ledger is that of an unpriced model.
\* (Violated: fetch_usage passes every record to add_usage with whatever
\* calculate_cost returned, and nothing flags the line.)
C11_UnknownNeverStored ==
  /\ \A n \in 1..Len(acked) : acked[n].cost # Null
  /\ \A i \in 1..Len(table) : ~UnknownPricing(table[i].model)

\* The previous run was a fetch_usage that stored the date's usage, and this
\* step is fetch_usage for the same date and the same provider answers.
FetchedAgain ==
  /\ run.op = "fetch_usage" /\ ~run.dry_run
  /\ run'.op = "fetch_usage" /\ ~run'.dry_run
  /\ run'.date = run.date
  /\ run'.openai = run.openai /\ run'.anthropic = run.anthropic

\* C12: fetch_usage run again for a date it has stored, against the same
\* provider answers, leaves every row of the ledger as it was.
\* (Violated: fetch_usage keeps no record of what it has submitted; the
\* second run adds every line again.)
C12_NoResubmission == [][FetchedAgain => table' = table]_vars

\* C13: a range query whose end date precedes its start date is rejected
\* with an InvalidRange failure: none of get_usage, get_total_cost,
\* get_cost_by_model, get_cost_by_provider answers it with a result.
\* (Violated: no method looks at its dates; the SELECT runs and an empty
\* result comes back.)
C13_InvalidRangeRejected ==
  \A start, end \in Dates : \A p \in ProviderArgs : \A method \in QueryMethods :
    StrLess(end, start) =>
      QueryCall(QueryResult(method, table, start, end, p), TRUE).exception
        = "InvalidRange"

\* C14: in every ledger state the four token counters of every row are
\* non-negative, and so is its cost.
\* (Violated: add_usage takes a negative count or cost as it takes any.)
C14_NonNegativeAccumulators ==
  \A i \in 1..Len(table) :
    /\ table[i].input_tokens >= 0 /\ table[i].output_tokens >= 0
    /\ table[i].cache_read_tokens >= 0 /\ table[i].cache_creation_tokens >= 0
    /\ table[i].cost # Null => table[i].cost[1] >= 0

\* C15: no row is ever deleted.  Whatever the step (add_usage, a query, the
\* store constructed again), every identity that has a row before the step
\* has one after it, and the table has lost no row.
C15_RowsStay ==
  [][/\ \A i \in 1..Len(table) :
          \E j \in 1..Len(table') : Identity(table'[j]) = Identity(table[i])
     /\ Len(table') >= Len(table)]_vars

\* C15 witness: the store has been constructed again over a ledger of two
\* rows that three calls built, and the two rows are there.
C15_Witness ==
  /\ run.op = "UsageStore"
  /\ Len(acked) = 3
  /\ Len(table) = 2
  /\ Identity(table[1]) # Identity(table[2])
  /\ table[1].input_tokens = acked[1].input_tokens + acked[3].input_tokens

\* C16: a storage failure is raised to the caller.  An add_usage call comes
\* back to "idle" (returns) only by the commit of its INSERT, with its deltas
\* in the table; a call the store failed stands at the exception and is not
\* among the returned calls; and a query method that meets a failing
\* database ends by the exception and returns no value.
C16_FailureRaised ==
  [][/\ \A p \in Procs :
          (pc[p] \in {"connected", "executed"} /\ pc'[p] = "idle") =>
             /\ pc[p] = "executed"
             /\ table' = txn[p]
             /\ acked' = Append(acked, args[p])
             /\ AddedTo(table, table', args[p])
     /\ \A p \in Procs :
          (pc[p] \in {"connected", "executed"} /\ acked' = acked
             /\ pc'[p] # pc[p]) =>
             pc'[p] \in {"execute_raised", "commit_raised", "executed"}
     /\ \A method \in QueryMethods :
          LET out == QueryCall(QueryResult(method, table, FormatDate(FirstDay),
                                           FormatDate(LastDay), NoProvider),
                               FALSE)
          IN out.exception # NoException /\ "value" \notin DOMAIN out]_vars

\* C16 witness: a call's INSERT met the database locked by the open
\* transaction of another call and raised; the other call's INSERT is still
\* uncommitted and nothing has returned.
C16_Witness ==
  \E p, q \in Procs :
    /\ pc[p] = "execute_raised" /\ pc[q] = "executed" /\ lock = q
    /\ acked = <<>> /\ table = <<>>
    /\ Len(txn[q]) = 1

\* C17: add_usage calls for different identity tuples do not block each
\* other: a call that is about to run its INSERT can run it while a call for
\* another identity has its transaction open.
\* (Violated: SQLite has one write lock for the whole database; the INSERT
\* waits for the other call's commit, or raises "database is locked".)
C17_DifferentIdentitiesDontBlock ==
  \A p, q \in Procs :
    (/\ p # q
     /\ pc[p] = "connected" /\ pc[q] \in {"connected", "executed"}
     /\ CallIdentity(args[p]) # CallIdentity(args[q])) => WriteLockFree(p)

\* The last place of `name` in the list.
LastPlace(list, name) ==
  CHOOSE i \in 1..Len(list) :
    list[i] = name /\ \A j \in (i + 1)..Len(list) : list[j] # name

\* The channels of `cfg.notify_channels` check_budget has an alert function
\* and a configuration for, in the order of the list.
AlertChannels(cfg) ==
  SelectSeq(cfg.notify_channels,
            LAMBDA c : \/ c = "feishu" /\ cfg.feishu_webhook
                       \/ c = "telegram" /\ cfg.telegram_token)

\* C18: notification fan-out is isolated per channel.  send_notification
\* returns (no exception leaves it) a dict with an entry for every name of
\* its list, has called send() on every name the registry knows, in the
\* list's order and whatever the sends before it met, and each entry is True
\* exactly when the name is known and its (last) delivery went through; and a
\* check_budget run that alerts sends the alert of every configured channel
\* of notify_channels, Telegram's also when Feishu's failed.
C18_FanOutIsolated ==
  /\ run.op = "send_notification" =>
       LET list == ChannelsOrConsole(run.channels)
           out == run.outcome
       IN /\ out.exception = NoException
          /\ DOMAIN out.results = {list[i] : i \in 1..Len(list)}
          /\ out.attempts = SelectSeq(list, LAMBDA name : name \in Registry)
          /\ \A name \in DOMAIN out.results :
               out.results[name] =
                 (/\ name \in Registry
                  /\ (name = "console" \/ run.env[LastPlace(list, name)] = "ok"))
  /\ (run.op = "check_budget" /\ run.outcome.pct >= run.config.alert_threshold) =>
       /\ run.outcome.exception = NoException
       /\ Len(run.outcome.alerts) = Len(AlertChannels(run.config))
       /\ \A i \in 1..Len(run.outcome.alerts) :
            /\ run.outcome.alerts[i].channel = AlertChannels(run.config)[i]
            /\ run.outcome.alerts[i].delivered
                 = (run.env[run.outcome.alerts[i].channel] = "ok")

\* C18 witness: send_notification over feishu, then telegram: the request to
\* Feishu raised, Telegram was tried all the same and went through.
C18_Witness ==
  /\ run.op = "send_notification"
  /\ run.channels = <<"feishu", "telegram">>
  /\ run.env[1] = "transport_error" /\ run.env[2] = "ok"
  /\ run.outcome.attempts = <<"feishu", "telegram">>
  /\ ~run.outcome.results["feishu"] /\ run.outcome.results["telegram"]

\* C19: in mode "warn" the budget check exits with code 0 whatever the
\* spending; in mode "exit" it exits with 2 when the spending is at or above
\* 100% of the budget, with 1 when it is at or above the alert threshold and
\* below 100%, and with 0 below the threshold.
\* (Violated: in mode "warn" a check at or above the threshold exits with 1.)
C19_WarnExitsZero ==
  run.op = "check_budget" =>
    LET spent == run.outcome.total_cost * 100
        full == 100 * run.budget
        alert == run.config.alert_threshold * run.budget
    IN run.outcome.exit_code =
         IF run.mode = "warn" THEN 0
         ELSE IF spent >= full THEN 2
         ELSE IF spent >= alert THEN 1
         ELSE 0

\* timedelta(days=7), the week of the report script.
WeekDays == 7

\* The window a period names on the day `today`: the day itself, the seven
\* days before it to the day, the month so far.
PeriodWindow(period, today) ==
  IF period = "today" THEN <<FormatDate(today), FormatDate(today)>>
  ELSE IF period = "week" THEN <<FormatDate(today - WeekDays), FormatDate(today)>>
  ELSE <<FormatDate(MonthStart), FormatDate(today)>>

\* C20: the budget is checked against total_cost over the window of the
\* period the caller chose: the start and end dates given to get_total_cost
\* are those of `period`, and the total is that of the window.
\* (Violated: check_budget never reads `period`; the window is the month so
\* far whatever the period.)
C20_PeriodSetsWindow ==
  run.op = "check_budget" =>
    LET window == PeriodWindow(run.period, run.today)
    IN /\ <<run.outcome.start_date, run.outcome.end_date>> = window
       /\ run.outcome.total_cost
            = GetTotalCost(table, window[1], window[2], NoProvider)[1]

\* The usage lines an answer of the OpenAI endpoint carries: its items with a
\* token count other than 0.
OpenaiLines(resp) ==
  IF ~resp.ok THEN 0
  ELSE Cardinality({i \in 1..Len(resp.data) :
                      \/ resp.data[i].n_context_tokens_total # 0
                      \/ resp.data[i].n_generated_tokens_total # 0})

\* The usage lines an answer of the Anthropic endpoint carries.
AnthropicLines(resp) == IF ~resp.ok THEN 0 ELSE Len(resp.usage)

\* C21: with dry_run set, fetch_usage leaves the ledger as it was: no
\* add_usage is performed for any fetched record and every row keeps its
\* values; and it still returns the number of records fetched, one per usage
\* line of each configured key's answer.
C21_DryRunStoresNothing ==
  [][(run'.op = "fetch_usage" /\ run'.dry_run) =>
       /\ table' = table
       /\ acked' = acked
       /\ run'.total_fetched =
            Len(OpenaiKeys) * OpenaiLines(run'.openai)
              + Len(AnthropicKeys) * AnthropicLines(run'.anthropic)]_vars

\* C21 witness: over a ledger that an earlier run filled with one row, a dry
\* run has fetched three records (two from OpenAI, one from Anthropic) and
\* the ledger still is that one row.
C21_Witness ==
  /\ run.op = "fetch_usage" /\ run.dry_run
  /\ Len(run.openai.data) = 2 /\ run.anthropic.ok
  /\ run.total_fetched = 3
  /\ Len(acked) = 1 /\ Len(table) = 1
  /\ table[1].input_tokens = acked[1].input_tokens
\* The add_usage calls begun so far: those that have returned, by their place
\* in acked, and those open on a connection, by the connection.
BegunCalls ==
  {<<"returned", n>> : n \in 1..Len(acked)} \cup {<<"open", p>> : p \in InFlight}

\* The arguments of a begun call.
DeltaOf(x) == IF x[1] = "returned" THEN acked[x[2]] ELSE args[x[2]]

RECURSIVE CallSum(_, _)
CallSum(S, col) ==
  IF S = {} THEN 0
  ELSE LET x == CHOOSE y \in S : TRUE IN DeltaOf(x)[col] + CallSum(S \ {x}, col)

\* The order in which begun calls reach the ledger: the returned ones in the
\* order they returned, any open one after them.
Earlier(x, y) == (x[1] = "returned" /\ y[1] = "open") \/ (x[1] = y[1] /\ x[2] < y[2])

\* The floating-point sum of the costs of the calls S, added in that order.
RECURSIVE CallCost(_)
CallCost(S) ==
  LET last == CHOOSE x \in S : \A y \in S \ {x} : Earlier(y, x)
  IN IF Cardinality(S) = 1 THEN DeltaOf(last).cost[1]
     ELSE FAdd(CallCost(S \ {last}), DeltaOf(last).cost[1])

CallGroup(x) == <<DeltaOf(x).date, DeltaOf(x).provider, DeltaOf(x).model>>

\* The calls of S for the identity `id`.
CallsFor(S, id) == {x \in S : CallIdentity(DeltaOf(x)) = id}

\* The floating-point sums of the costs of the calls S over the identities
\* `ids`: each identity's row holds the sum of its calls, and the rows are
\* added up in one order or another.
RECURSIVE RowCostSums(_, _)
RowCostSums(S, ids) ==
  IF ids = {} THEN {0}
  ELSE UNION {{FAdd(v, CallCost(CallsFor(S, id))) : v \in RowCostSums(S, ids \ {id})} :
                id \in ids}

\* The list `out` that get_usage returned is what the calls S, each with all
\* five of its deltas, and no other call amount to.
UsageWhole(S, out) ==
  /\ {EntryGroup(out[n]) : n \in 1..Len(out)} = {CallGroup(x) : x \in S}
  /\ \A n \in 1..Len(out) :
       LET grp == {x \in S : CallGroup(x) = EntryGroup(out[n])}
       IN /\ out[n].input_tokens = CallSum(grp, "input_tokens")
          /\ out[n].output_tokens = CallSum(grp, "output_tokens")
          /\ out[n].cache_read_tokens = CallSum(grp, "cache_read_tokens")
          /\ out[n].cache_creation_tokens = CallSum(grp, "cache_creation_tokens")
          /\ out[n].cost \in
               {<<v>> : v \in RowCostSums(grp, {CallIdentity(DeltaOf(x)) : x \in grp})}

\* The number `total` that get_total_cost returned is the cost of the calls S.
TotalWhole(S, total) ==
  total \in {<<v>> : v \in RowCostSums(S, {CallIdentity(DeltaOf(x)) : x \in S})}

\* C22: a read that runs while add_usage calls are open never observes a
\* torn row.  Whenever get_usage or get_total_cost has returned, there is a
\* set of the add_usage calls begun such that the result is what exactly
\* those calls amount to, each with all five of its field deltas (the cost of
\* a row the floating-point sum of its calls' costs in the order they
\* returned); the deltas of every other call are absent altogether.  The set
\* may hold some of the calls and not others.
C22_NoTornRead ==
  /\ run.op = "get_usage" =>
       \E S \in SUBSET BegunCalls : UsageWhole(S, run.outcome.value)
  /\ run.op = "get_total_cost" =>
       \E S \in SUBSET BegunCalls : TotalWhole(S, run.outcome.value)

\* C22 witness: get_usage has run between the INSERT and the commit of a call
\* for an identity that has a row: the open transaction holds the row with
\* the call's deltas added, a second call is open beside it, and get_usage
\* has returned the row as the one returned call left it.
C22_Witness ==
  \E p, q \in Procs :
    /\ pc[p] = "executed" /\ pc[q] = "connected"
    /\ Len(acked) = 1 /\ acked[1].input_tokens = 1000
    /\ CallIdentity(args[p]) = CallIdentity(acked[1])
    /\ txn[p][1].input_tokens = 2000 /\ txn[p][1].cost = <<16>>
    /\ run.op = "get_usage"
    /\ Len(run.outcome.value) = 1
    /\ run.outcome.value[1].input_tokens = 1000
    /\ run.outcome.value[1].output_tokens = 500
    /\ run.outcome.value[1].cache_read_tokens = 20
    /\ run.outcome.value[1].cache_creation_tokens = 10
    /\ run.outcome.value[1].cost = <<8>>
\* C23: recording a usage line whose cost is absent (the calculator's
\* "unknown") never destroys cost already accumulated: when the row of the
\* call's identity held a numeric cost before the call it holds the same
\* cost after it, and after the call every value of get_cost_by_model and of
\* get_cost_by_provider is a number, not a null.
\* (Violated: DO UPDATE SET cost = usage_records.cost + excluded.cost makes
\* the row's cost NULL, and a SUM(cost) over NULLs alone is NULL.)
C23_UnknownKeepsCost ==
  [][\A a \in InterfaceCalls :
       (acked' = Append(acked, a) /\ a.cost = Null) =>
          LET start == FormatDate(FirstDay)
              end == FormatDate(LastDay)
              by_model == GetCostByModel(table', start, end, NoProvider)
              by_provider == GetCostByProvider(table', start, end)
          IN /\ \A i \in RowsOf(table, a) :
                  table[i].cost # Null => table'[i].cost = table[i].cost
             /\ \A m \in DOMAIN by_model : by_model[m] # Null
             /\ \A q \in DOMAIN by_provider : by_provider[q] # Null]_vars
\* The floating-point sums of the values of the mapping `by` over the keys
\* `keys`, one per order of adding them.
RECURSIVE ValueSums(_, _)
ValueSums(by, keys) ==
  IF keys = {} THEN {0}
  ELSE UNION {{FAdd(v, by[k][1]) : v \in ValueSums(by, keys \ {k})} : k \in keys}

\* The floating-point sums of the cost of the entries `ns` of the list `out`.
RECURSIVE EntrySums(_, _)
EntrySums(out, ns) ==
  IF ns = {} THEN {0}
  ELSE UNION {{FAdd(v, out[n].cost[1]) : v \in EntrySums(out, ns \ {n})} : n \in ns}

\* C24: for any ledger state and any date range the aggregate queries agree:
\* the values of get_cost_by_provider(start, end) add up to
\* get_total_cost(start, end), the values of get_cost_by_model(start, end, p)
\* to get_total_cost(start, end, p), and the cost of the entries of
\* get_usage(start, end, p) to get_total_cost(start, end, p), in one order
\* of adding at least.
\* (Violated: each query adds float costs in its own grouping, and the sum
\* of the group sums is rounded differently from the sum over the rows.)
C24_AggregatesAgree ==
  \A start, end \in Dates :
    /\ LET by == GetCostByProvider(table, start, end)
       IN GetTotalCost(table, start, end, NoProvider)[1] \in ValueSums(by, DOMAIN by)
    /\ \A p \in ProviderArgs :
         LET by == GetCostByModel(table, start, end, p)
             out == GetUsage(table, start, end, p)
             total == GetTotalCost(table, start, end, p)[1]
         IN /\ total \in ValueSums(by, DOMAIN by)
            /\ total \in EntrySums(out, 1..Len(out))
\* C25: add_usage changes only the row of its own identity tuple: a call that
\* returns leaves every row whose (date, provider, credential fingerprint,
\* model) differs from its own with all its accumulators as they were, in its
\* place; and a call of get_usage, get_total_cost, get_cost_by_model or
\* get_cost_by_provider changes no row at all.
C25_OnlyOwnRow ==
  [][/\ \A a \in InterfaceCalls :
          acked' = Append(acked, a) =>
            /\ Len(table') >= Len(table)
            /\ \A i \in 1..Len(table) :
                 Identity(table[i]) # RowKey(a) => table'[i] = table[i]
     /\ (acked' = acked /\ run'.op \in QueryMethods) => table' = table]_vars

\* C25 witness: two rows of different credentials; the third call has added
\* to the first row, the second row holds exactly what its one call gave it,
\* and a query has run over the two rows and returned.
C25_Witness ==
  /\ run.op \in QueryMethods /\ run.outcome.exception = NoException
  /\ Len(acked) = 3 /\ Len(table) = 2
  /\ CallIdentity(acked[3]) = CallIdentity(acked[1])
  /\ CallIdentity(acked[2]) # CallIdentity(acked[1])
  /\ table[1].input_tokens = acked[1].input_tokens + acked[3].input_tokens
  /\ Identity(table[2]) = RowKey(acked[2])
  /\ table[2].input_tokens = acked[2].input_tokens
  /\ table[2].output_tokens = acked[2].output_tokens
  /\ table[2].cache_read_tokens = acked[2].cache_read_tokens
  /\ table[2].cache_creation_tokens = acked[2].cache_creation_tokens
  /\ table[2].cost = acked[2].cost

====
